---- MODULE Spec2Model ----
(***************************************************************************)
(* Model of the PyPI scraper (src/main.go): the RequestManager polling     *)
(* gate, the per-package crawl goroutines, the progress counters, the      *)
(* WaitGroup and the buffered CSV writer over output.csv.                  *)
(*                                                                         *)
(* Each goroutine is a small program counter machine.  A step is one       *)
(* access to shared state (an atomic load or add, a network call, a call   *)
(* into the shared csv.Writer); purely local code is folded into the       *)
(* neighbouring step.                                                      *)
(***************************************************************************)
EXTENDS Integers, Sequences, FiniteSets, TLC

\* ---------------------------------------------------------------- bounds
MaxPackages == 2      \* anchors on the registry index page: 0..MaxPackages
MaxDists == 2         \* anchors on one package page: 0..MaxDists
MaxCeiling == 2       \* maxConcurrentRequests ranges over 1..MaxCeiling
BufRecords == 2       \* records the bufio buffer under csv.Writer holds
MaxPieces == 3        \* pieces (anchors, line breaks, text) of a body

\* ------------------------------------------------------------- constants
LimbBase == 65536     \* a uint64 is four 16-bit limbs, least significant first

Units == 1..MaxPackages

\* Content-Length values a HEAD response reports; -1 is "unknown length".
ContentLengths == {-1, 1024, 2048}

\* A line of output.csv.  A data line holds the package (its index on the
\* registry page), the distribution (its index on the package page) and the
\* size that fmt.Sprintf("%d") prints; the other kinds carry no fields.
Row(kind, pkg, dist, size) ==
    [kind |-> kind, pkg |-> pkg, dist |-> dist, size |-> size]

\* The line Package,Distribution,Size.
Header == Row("header", 0, 0, 0)
\* What a line becomes when two unsynchronised Writes interleave their bytes.
Torn == Row("torn", 0, 0, 0)
\* A line left in output.csv by an earlier run.
Stale == Row("stale", 0, 0, 0)

VARIABLES
    proc,                  \* "running" | "panicked" | "exited"
    mainpc,                \* position of main()
    packages,              \* len(packages) returned by getPackages
    next,                  \* index of the next package the launch loop takes
    tasksGroup,            \* sync.WaitGroup counter
    packagesScraped,       \* atomic.Uint32
    distributionsFound,    \* atomic.Uint32
    totalSizeBytes,        \* atomic.Uint64, as limbs
    totalRequests,         \* RequestManager.totalRequests
    requestsFinished,      \* RequestManager.requestsFinished
    maxConcurrentRequests, \* RequestManager.maxConcurrentRequests
    unit,                  \* unit[u]: the goroutine launched for package u
    buf,                   \* records held in the csv.Writer's bufio buffer
    file,                  \* records that reached output.csv
    closed,                \* f.Close() has run
    submitted,             \* history: records passed to writer.Write, in call order
    netCalls,              \* history: HTTP calls made, direct and through Request
    extract                \* exctractUrls: the body given and the anchors returned

vars == <<proc, mainpc, packages, next, tasksGroup, packagesScraped,
          distributionsFound, totalSizeBytes, totalRequests, requestsFinished,
          maxConcurrentRequests, unit, buf, file, closed, submitted, netCalls,
          extract>>

\* ------------------------------------------------------- uint64 arithmetic
U64Zero == <<0, 0, 0, 0>>

\* Limbs of a non-negative int below LimbBase^2.
Limbs(n) == <<n % LimbBase, (n \div LimbBase) % LimbBase, 0, 0>>

\* uint64(size) for a Go int: two's complement for a negative value.
ToUint64(n) ==
    IF n >= 0 THEN Limbs(n)
    ELSE [k \in 1..4 |-> (LimbBase - 1) - Limbs(-n - 1)[k]]

Carry(a, b, k) ==
    LET c1 == (a[1] + b[1]) \div LimbBase
        c2 == (a[2] + b[2] + c1) \div LimbBase
        c3 == (a[3] + b[3] + c2) \div LimbBase
    IN  CASE k = 1 -> 0 [] k = 2 -> c1 [] k = 3 -> c2 [] OTHER -> c3

\* atomic.Uint64.Add: addition modulo 2^64.
U64Add(a, b) == [k \in 1..4 |-> (a[k] + b[k] + Carry(a, b, k)) % LimbBase]

\* a <= b on uint64 values.
U64Leq(a, b) ==
    \/ a = b
    \/ \E k \in 1..4 : a[k] < b[k] /\ \A j \in (k+1)..4 : a[j] = b[j]

\* ------------------------------------------------------------- csv.Writer
\* bufio.Writer under csv.Writer: a record stays in the buffer until the
\* buffer is full; only then is the buffer written to the file.  A write to
\* a closed file fails and the data is dropped.
SinkBuf(b, rec) == IF Len(b) >= BufRecords THEN <<rec>> ELSE Append(b, rec)

SinkFile(b, f, isClosed) ==
    IF Len(b) >= BufRecords /\ ~isClosed THEN f \o b ELSE f

\* ------------------------------------------------------------ exctractUrls
\* A body is a sequence of tokens.  The tokens that matter to the pattern of
\* main.go:138 are "open" (<a href="), "quote" ("), "gt" (>), "close" (</a>)
\* and "nl" (a line break); every other token is a piece of plain text
\* without ", <, > or line break.  "openhead" (<a href=) is an "open" without
\* its final quote, which only appears inside an extracted href.

\* The token has no " in it: [^"] can take it.
NoQuote(tok) == tok \notin {"open", "quote"}

\* The token has no < in it: [^<] can take it.
NoLt(tok) == tok \notin {"open", "close"}

\* The token ends with >.
EndsWithGt(tok) == tok \in {"gt", "close"}

\* The least element of a non-empty set of numbers, and the greatest.
Least(S) == CHOOSE k \in S : \A j \in S : k <= j
Greatest(S) == CHOOSE k \in S : \A j \in S : k >= j

\* [^"]*" after the "open" at s: the token that holds the first " after s
\* (a "quote", or the next "open", whose last character is a "); 0 if none.
QuoteAt(body, s) ==
    LET Q == {k \in (s+1)..Len(body) : ~NoQuote(body[k])}
    IN  IF Q = {} THEN 0 ELSE Least(Q)

\* The last token of the line that holds token q: . does not match "nl".
LineEnd(body, q) ==
    LET N == {k \in (q+1)..Len(body) : body[k] = "nl"}
    IN  IF N = {} THEN Len(body) ELSE Least(N) - 1

\* [^<]*</a> after the > that ends token g: the "close" that ends the match,
\* when the first token with a < after g is a "close"; 0 otherwise.
CloseAfter(body, g) ==
    LET C == {k \in (g+1)..Len(body) : ~NoLt(body[k])}
    IN  IF C = {} THEN 0
        ELSE IF body[Least(C)] = "close" THEN Least(C) ELSE 0

\* The tokens whose final > the pattern's > can match after the quote in
\* token q: on the same line, and followed by [^<]*</a>.
GtCandidates(body, q) ==
    {g \in (q+1)..LineEnd(body, q) :
        EndsWithGt(body[g]) /\ CloseAfter(body, g) # 0}

\* .* is greedy: of the candidates the pattern takes the last.
GtChosen(body, q) == Greatest(GtCandidates(body, q))

\* Whether the pattern matches with its first character at token s.
MatchesAt(body, s) ==
    /\ body[s] = "open"
    /\ QuoteAt(body, s) # 0
    /\ GtCandidates(body, QuoteAt(body, s)) # {}

\* The token that ends the match starting at s.
MatchEnd(body, s) == CloseAfter(body, GtChosen(body, QuoteAt(body, s)))

\* The AnchorTag of the match starting at s (main.go:142): submatch 1 and 2.
AnchorAt(body, s) ==
    LET q == QuoteAt(body, s)
        g == GtChosen(body, q)
    IN  [href |-> SubSeq(body, s + 1, q - 1)
                    \o (IF body[q] = "open" THEN <<"openhead">> ELSE <<>>),
         text |-> SubSeq(body, g + 1, CloseAfter(body, g) - 1)]

\* FindAllSubmatch from token p on: leftmost match first, then on from the
\* token after its end.
RECURSIVE FindAll(_, _)
FindAll(body, p) ==
    IF p > Len(body) THEN <<>>
    ELSE IF MatchesAt(body, p)
         THEN <<AnchorAt(body, p)>> \o FindAll(body, MatchEnd(body, p) + 1)
         ELSE FindAll(body, p + 1)

\* exctractUrls (main.go:137-145).
exctractUrls(body) == FindAll(body, 1)

\* The pieces bodies are made of: two well-formed anchors, a line break, plain
\* text, and an anchor whose href has no closing quote.
Anchor(h, t) == <<"open", h, "quote", "gt", t, "close">>

Piece(id) ==
    CASE id = "a1"  -> Anchor("h1", "t1")
      [] id = "a2"  -> Anchor("h2", "t2")
      [] id = "nl"  -> <<"nl">>
      [] id = "txt" -> <<"x">>
      [] OTHER      -> <<"open", "h3", "gt", "t3", "close">>

PieceIds == {"a1", "a2", "nl", "txt", "bad"}

\* The body made of the pieces ps.
RECURSIVE Flatten(_)
Flatten(ps) == IF ps = <<>> THEN <<>> ELSE Piece(Head(ps)) \o Flatten(Tail(ps))

\* The documents: up to MaxPieces pieces.
Documents == UNION {[1..n -> PieceIds] : n \in 0..MaxPieces}

\* exctractUrls has not been called.
NoExtract == [pieces |-> <<>>, body |-> <<>>, urls |-> <<>>, done |-> FALSE]

\* -------------------------------------------------------------------- Init
IdleUnit == [pc |-> "idle", method |-> "GET", nDists |-> 0, i |-> 0,
             loaded |-> 0, err |-> FALSE, size |-> 0, raced |-> FALSE]

Init ==
    /\ proc = "running"
    /\ mainpc = "discover"
    /\ packages = 0
    /\ next = 1
    /\ tasksGroup = 0
    /\ packagesScraped = 0
    /\ distributionsFound = 0
    /\ totalSizeBytes = U64Zero
    /\ totalRequests = 0
    /\ requestsFinished = 0
    /\ maxConcurrentRequests \in 1..MaxCeiling
    /\ unit = [u \in Units |-> IdleUnit]
    /\ buf = <<>>
    /\ file \in {<<>>, <<Stale>>}
    /\ closed = FALSE
    /\ submitted = <<>>
    /\ netCalls = [direct |-> 0, governed |-> 0]
    /\ extract = NoExtract

\* ------------------------------------------------------------------- main
mainVars == <<mainpc, packages, next, tasksGroup, packagesScraped>>
counterVars == <<distributionsFound, totalSizeBytes>>
managerVars == <<totalRequests, requestsFinished, maxConcurrentRequests>>
sinkVars == <<buf, file, closed, submitted>>

\* A bug Discover could have: getPackages hands back the packages resolved
\* before the error, together with the error.
DiscoverPartial ==
    /\ proc = "running" /\ mainpc = "discover"
    /\ netCalls' = [netCalls EXCEPT !.direct = @ + 1]
    /\ \E ok \in BOOLEAN, n \in 0..MaxPackages :
          /\ packages' = n
          /\ mainpc' = IF ok THEN "create" ELSE mainpc
          /\ proc' = IF ok THEN proc ELSE "panicked"
    /\ UNCHANGED <<extract, next, tasksGroup, packagesScraped, counterVars, managerVars,
                   unit, sinkVars>>

\* main.go:175-178 with getPackages (147-172): one direct http.Get of the
\* index, outside the RequestManager.  A fetch, read or href-parse error
\* panics; otherwise one Package per anchor.
Discover ==
    /\ proc = "running" /\ mainpc = "discover"
    /\ netCalls' = [netCalls EXCEPT !.direct = @ + 1]
    /\ \E ok \in BOOLEAN, n \in 0..MaxPackages :
          IF ok
          THEN /\ packages' = n
               /\ mainpc' = "create"
               /\ proc' = proc
          ELSE /\ packages' = 0
               /\ mainpc' = mainpc
               /\ proc' = "panicked"
    /\ UNCHANGED <<extract, next, tasksGroup, packagesScraped, counterVars, managerVars,
                   unit, sinkVars>>

\* main.go:208-211: os.Create truncates output.csv, or fails and panics.
CreateFile ==
    /\ proc = "running" /\ mainpc = "create"
    /\ \E ok \in BOOLEAN :
          IF ok
          THEN /\ file' = <<>> /\ mainpc' = "header" /\ proc' = proc
          ELSE /\ file' = file /\ mainpc' = mainpc /\ proc' = "panicked"
    /\ UNCHANGED <<extract, packages, next, tasksGroup, packagesScraped, counterVars,
                   managerVars, unit, buf, closed, submitted, netCalls>>

\* A bug WriteHeader could have: the header line is never written.
WriteHeaderSkipped ==
    /\ proc = "running" /\ mainpc = "header"
    /\ mainpc' = "launch"
    /\ UNCHANGED <<extract, proc, packages, next, tasksGroup, packagesScraped,
                   counterVars, managerVars, unit, sinkVars, netCalls>>

\* main.go:213-216: csv.NewWriter(f) and the header Write, before any unit
\* is launched.
WriteHeader ==
    /\ proc = "running" /\ mainpc = "header"
    /\ buf' = SinkBuf(buf, Header)
    /\ file' = SinkFile(buf, file, closed)
    /\ submitted' = Append(submitted, Header)
    /\ mainpc' = "launch"
    /\ UNCHANGED <<extract, proc, packages, next, tasksGroup, packagesScraped,
                   counterVars, managerVars, unit, closed, netCalls>>

\* main.go:218-222, 239: one iteration of the launch loop: tasksGroup.Add(1),
\* packagesScraped.Add(1), go func(pkg).
Launch ==
    /\ proc = "running" /\ mainpc = "launch" /\ next <= packages
    /\ tasksGroup' = tasksGroup + 1
    /\ packagesScraped' = packagesScraped + 1
    /\ unit' = [unit EXCEPT ![next].pc = "gate"]
    /\ next' = next + 1
    /\ UNCHANGED <<extract, proc, mainpc, packages, counterVars, managerVars, sinkVars,
                   netCalls>>

\* main.go:218: the range loop is exhausted.
LaunchDone ==
    /\ proc = "running" /\ mainpc = "launch" /\ next > packages
    /\ mainpc' = "wait"
    /\ UNCHANGED <<extract, proc, packages, next, tasksGroup, packagesScraped,
                   counterVars, managerVars, unit, sinkVars, netCalls>>

\* A bug WaitReady could have: main does not wait for the units.
WaitReadyAlways == TRUE

\* What tasksGroup.Wait() waits for.
WaitReady == tasksGroup = 0

\* main.go:241: tasksGroup.Wait() returns once the counter is zero.
Wait ==
    /\ proc = "running" /\ mainpc = "wait"
    /\ WaitReady
    /\ mainpc' = "close"
    /\ UNCHANGED <<extract, proc, packages, next, tasksGroup, packagesScraped,
                   counterVars, managerVars, unit, sinkVars, netCalls>>

\* main.go:242-243: f.Close() and return.  The csv.Writer is never flushed:
\* what is still in its buffer does not reach the file.
Close ==
    /\ proc = "running" /\ mainpc = "close"
    /\ closed' = TRUE
    /\ mainpc' = "done"
    /\ proc' = "exited"
    /\ UNCHANGED <<extract, packages, next, tasksGroup, packagesScraped, counterVars,
                   managerVars, unit, buf, file, submitted, netCalls>>

\* ------------------------------------------------------ RequestManager
\* main.go:50-52 is two separate atomic loads.  First load: totalRequests.
GateLoadTotal(u) ==
    /\ proc = "running" /\ unit[u].pc = "gate"
    /\ unit' = [unit EXCEPT ![u].loaded = totalRequests, ![u].pc = "gate2"]
    /\ UNCHANGED <<extract, proc, mainVars, counterVars, managerVars, sinkVars, netCalls>>

\* getRunningRequests (main.go:50-52), from the value loaded first and the
\* current requestsFinished.
getRunningRequests(loadedTotal) == loadedTotal - requestsFinished

\* A bug GateClosed could have: an off-by-one ceiling, which with a ceiling of
\* 1 keeps the gate shut even when nothing is in flight.
GateClosedOffByOne(running) == running >= maxConcurrentRequests - 1

\* The loop condition of main.go:58.
GateClosed(running) == running >= maxConcurrentRequests

\* url.Parse (main.go:62): a package url came out of URL.String() and parses;
\* a distribution url is the raw href and may not.
UrlParses(method) == IF method = "GET" THEN {TRUE} ELSE {TRUE, FALSE}

\* A bug GateLoadFinished could have: totalRequests.Add(1) placed before
\* url.Parse, so that a malformed url is counted as issued.
GateLoadFinishedCountsFirst(u) ==
    /\ proc = "running" /\ unit[u].pc = "gate2"
    /\ IF GateClosed(getRunningRequests(unit[u].loaded))
       THEN /\ unit' = [unit EXCEPT ![u].loaded = 0, ![u].pc = "gate"]
            /\ totalRequests' = totalRequests
       ELSE /\ \E ok \in UrlParses(unit[u].method) :
                  unit' = [unit EXCEPT ![u].loaded = 0,
                                       ![u].err = ~ok,
                                       ![u].pc = IF ok THEN "do" ELSE "returned"]
            /\ totalRequests' = totalRequests + 1
    /\ UNCHANGED <<extract, proc, mainVars, counterVars, requestsFinished,
                   maxConcurrentRequests, sinkVars, netCalls>>

\* main.go:58-65: second load and the comparison.  At or above the ceiling:
\* sleep and poll again.  Below it: leave the loop and parse the url; a parse
\* error returns before any counter is touched.
GateLoadFinished(u) ==
    /\ proc = "running" /\ unit[u].pc = "gate2"
    /\ IF GateClosed(getRunningRequests(unit[u].loaded))
       THEN unit' = [unit EXCEPT ![u].loaded = 0, ![u].pc = "gate"]
       ELSE \E ok \in UrlParses(unit[u].method) :
               unit' = [unit EXCEPT ![u].loaded = 0,
                                    ![u].err = ~ok,
                                    ![u].pc = IF ok THEN "issue" ELSE "returned"]
    /\ UNCHANGED <<extract, proc, mainVars, counterVars, managerVars, sinkVars, netCalls>>

\* A bug Issue could have: the request is counted twice (once more by the
\* Get or Head wrapper).
IssueTwice(u) ==
    /\ proc = "running" /\ unit[u].pc = "issue"
    /\ totalRequests' = totalRequests + 2
    /\ unit' = [unit EXCEPT ![u].pc = "do"]
    /\ UNCHANGED <<extract, proc, mainVars, counterVars, requestsFinished,
                   maxConcurrentRequests, sinkVars, netCalls>>

\* A bug Issue could have: the call goes out without being counted.
IssueUncounted(u) ==
    /\ proc = "running" /\ unit[u].pc = "issue"
    /\ unit' = [unit EXCEPT ![u].pc = "do"]
    /\ UNCHANGED <<extract, proc, mainVars, counterVars, managerVars, sinkVars, netCalls>>

\* main.go:69: totalRequests.Add(1).
Issue(u) ==
    /\ proc = "running" /\ unit[u].pc = "issue"
    /\ totalRequests' = totalRequests + 1
    /\ unit' = [unit EXCEPT ![u].pc = "do"]
    /\ UNCHANGED <<extract, proc, mainVars, counterVars, requestsFinished,
                   maxConcurrentRequests, sinkVars, netCalls>>

\* main.go:70: http.DefaultClient.Do: the blocking network call.  It fails,
\* or answers; a HEAD answer carries a Content-Length.
Do(u) ==
    /\ proc = "running" /\ unit[u].pc = "do"
    /\ netCalls' = [netCalls EXCEPT !.governed = @ + 1]
    /\ \E ok \in BOOLEAN, len \in ContentLengths :
          unit' = [unit EXCEPT ![u].err = ~ok,
                               ![u].size = IF ok /\ unit[u].method = "HEAD"
                                           THEN len ELSE 0,
                               ![u].pc = "finish"]
    /\ UNCHANGED <<extract, proc, mainVars, counterVars, managerVars, sinkVars>>

\* A bug Finish could have: only a call that succeeded is counted as finished.
FinishOnSuccess(u) ==
    /\ proc = "running" /\ unit[u].pc = "finish"
    /\ requestsFinished' = IF unit[u].err THEN requestsFinished
                           ELSE requestsFinished + 1
    /\ unit' = [unit EXCEPT ![u].pc = "returned"]
    /\ UNCHANGED <<extract, proc, mainVars, counterVars, totalRequests,
                   maxConcurrentRequests, sinkVars, netCalls>>

\* main.go:71-73: requestsFinished.Add(1), whatever the outcome, and return.
Finish(u) ==
    /\ proc = "running" /\ unit[u].pc = "finish"
    /\ requestsFinished' = requestsFinished + 1
    /\ unit' = [unit EXCEPT ![u].pc = "returned"]
    /\ UNCHANGED <<extract, proc, mainVars, counterVars, totalRequests,
                   maxConcurrentRequests, sinkVars, netCalls>>

\* ------------------------------------------------------------ crawl unit
\* Where the range loop of main.go:227 goes with i distributions handled.
LoopNext(n, i) == IF i < n THEN "found" ELSE "done"

\* main.go:223-227 with getDistributions (106-130): the Get has returned.
\* An error (from the Get or from io.ReadAll) heads for panic(err); otherwise
\* one Distribution per anchor of the page and the loop starts.
GetDistributions(u) ==
    /\ proc = "running" /\ unit[u].pc = "returned" /\ unit[u].method = "GET"
    /\ IF unit[u].err
       THEN unit' = [unit EXCEPT ![u].pc = "panic"]
       ELSE \E readOk \in BOOLEAN, n \in 0..MaxDists :
               unit' = [unit EXCEPT
                           ![u].err = ~readOk,
                           ![u].nDists = IF readOk THEN n ELSE 0,
                           ![u].pc = IF readOk THEN LoopNext(n, 0) ELSE "panic"]
    /\ UNCHANGED <<extract, proc, mainVars, counterVars, managerVars, sinkVars, netCalls>>

\* main.go:228-229: distributionsFound.Add(1), then getSizeBytes calls Head.
Found(u) ==
    /\ proc = "running" /\ unit[u].pc = "found"
    /\ distributionsFound' = distributionsFound + 1
    /\ unit' = [unit EXCEPT ![u].i = @ + 1, ![u].method = "HEAD",
                            ![u].pc = "gate"]
    /\ UNCHANGED <<extract, proc, mainVars, totalSizeBytes, managerVars, sinkVars,
                   netCalls>>

\* getSizeBytes (main.go:92-99): 0 with the error, else int(ContentLength).
getSizeBytes(err, contentLength) == IF err THEN 0 ELSE contentLength

\* main.go:229-233: the Head has returned; totalSizeBytes.Add(uint64(size))
\* runs before the error check.
AddSize(u) ==
    /\ proc = "running" /\ unit[u].pc = "returned" /\ unit[u].method = "HEAD"
    /\ LET size == getSizeBytes(unit[u].err, unit[u].size)
       IN  /\ totalSizeBytes' = U64Add(totalSizeBytes, ToUint64(size))
           /\ unit' = [unit EXCEPT ![u].size = size,
                                   ![u].pc = IF unit[u].err THEN "panic"
                                             ELSE "write"]
    /\ UNCHANGED <<extract, proc, mainVars, distributionsFound, managerVars, sinkVars,
                   netCalls>>

\* A bug Panic could have: the panic ends the goroutine and nothing else.
PanicOnlyUnit(u) ==
    /\ proc = "running" /\ unit[u].pc = "panic"
    /\ unit' = [unit EXCEPT ![u].pc = "panicked"]
    /\ UNCHANGED <<extract, proc, mainVars, counterVars, managerVars, sinkVars, netCalls>>

\* A bug Panic could have: the panic is recovered and the unit counts as done.
PanicRecovered(u) ==
    /\ proc = "running" /\ unit[u].pc = "panic"
    /\ tasksGroup' = tasksGroup - 1
    /\ unit' = [unit EXCEPT ![u].pc = "panicked"]
    /\ UNCHANGED <<extract, proc, mainpc, packages, next, packagesScraped, counterVars,
                   managerVars, sinkVars, netCalls>>

\* main.go:225, 232: panic(err) in a goroutine ends the whole process.
Panic(u) ==
    /\ proc = "running" /\ unit[u].pc = "panic"
    /\ proc' = "panicked"
    /\ unit' = [unit EXCEPT ![u].pc = "panicked"]
    /\ UNCHANGED <<extract, mainVars, counterVars, managerVars, sinkVars, netCalls>>

\* The units inside writer.Write.
Writing == {v \in Units : unit[v].pc = "writing"}

\* The record of main.go:234.
Record(u) == Row("data", u, unit[u].i, unit[u].size)

\* main.go:234: the unit enters writer.Write.  csv.Writer takes no lock, so
\* a unit that finds another one inside races with it.
WriteBegin(u) ==
    /\ proc = "running" /\ unit[u].pc = "write"
    /\ submitted' = Append(submitted, Record(u))
    /\ unit' = [v \in Units |->
                  IF v = u
                  THEN [unit[v] EXCEPT !.pc = "writing", !.raced = Writing # {}]
                  ELSE IF v \in Writing
                       THEN [unit[v] EXCEPT !.raced = TRUE]
                       ELSE unit[v]]
    /\ UNCHANGED <<extract, proc, mainVars, counterVars, managerVars, buf, file, closed,
                   netCalls>>

\* What a Write can leave in the buffer.  Alone in the writer: the record.
\* Racing with another Write (a data race on the bufio buffer and its fill
\* count): the record, nothing (overwritten by the other), or torn bytes.
WriteOutcomes(u) ==
    IF unit[u].raced THEN {<<Record(u)>>, <<>>, <<Torn>>} ELSE {<<Record(u)>>}

\* main.go:234-235: writer.Write returns; next distribution or out of the loop.
WriteEnd(u) ==
    /\ proc = "running" /\ unit[u].pc = "writing"
    /\ \E out \in WriteOutcomes(u) :
          IF out = <<>>
          THEN UNCHANGED <<buf, file>>
          ELSE /\ buf' = SinkBuf(buf, out[1])
               /\ file' = SinkFile(buf, file, closed)
    /\ unit' = [unit EXCEPT ![u].raced = FALSE, ![u].size = 0,
                            ![u].pc = LoopNext(unit[u].nDists, unit[u].i)]
    /\ UNCHANGED <<extract, proc, mainVars, counterVars, managerVars, closed, submitted,
                   netCalls>>

\* main.go:236: tasksGroup.Done().
Done(u) ==
    /\ proc = "running" /\ unit[u].pc = "done"
    /\ tasksGroup' = tasksGroup - 1
    /\ unit' = [unit EXCEPT ![u].pc = "finished"]
    /\ UNCHANGED <<extract, proc, mainpc, packages, next, packagesScraped, counterVars,
                   managerVars, sinkVars, netCalls>>

\* ----------------------------------------------------- derived notions
\* Requests in flight: past totalRequests.Add(1), not yet at
\* requestsFinished.Add(1).
InFlight == {u \in Units : unit[u].pc \in {"do", "finish"}}

\* The units main has launched.
Launched == 1..(next - 1)

\* Every record the writer accepted, in the order it holds them.
Appended == file \o buf

\* The distributions discovered so far, as <<package, distribution>>.
Discovered ==
    UNION {{<<u, j>> : j \in 1..unit[u].nDists} : u \in Units}

\* Some unit's request (or the read of its response) has failed.
AnyFailed == \E u \in Units : unit[u].err

\* The positions of sequence s that hold r.
Positions(s, r) == {k \in DOMAIN s : s[k] = r}

\* The data positions of s for distribution j of package u.
RowsOf(s, u, j) ==
    {k \in DOMAIN s : s[k].kind = "data" /\ s[k].pkg = u /\ s[k].dist = j}

\* ------------------------------------------------------------------ claims
\* C1: in every reachable state the number of requests in flight is at most
\* maxConcurrentRequests.
C1_InFlightWithinCeiling == Cardinality(InFlight) <= maxConcurrentRequests

C3_WritesSerialized == Cardinality(Writing) <= 1

\* C4: when the run reaches Done (every fetch succeeded, the file is closed),
\* the file holds the header followed by exactly one data row per discovered
\* distribution, and every submitted row is in it.
C4_ClosedFileComplete ==
    mainpc = "done" =>
        /\ Len(file) = 1 + Cardinality(Discovered)
        /\ file[1] = Header
        /\ \A d \in Discovered : Cardinality(RowsOf(file, d[1], d[2])) = 1
        /\ \A k \in DOMAIN submitted : Positions(file, submitted[k]) # {}

\* C5: the header is submitted to the sink exactly once, it is the first
\* record submitted and the first the sink holds, and no unit runs (so none
\* appends) before it has been written.
C5_HeaderOnceAndFirst ==
    /\ Cardinality(Positions(submitted, Header)) <= 1
    /\ mainpc \in {"launch", "wait", "close", "done"} =>
          /\ Positions(submitted, Header) = {1}
          /\ Appended[1] = Header
    /\ \A u \in Units : unit[u].pc # "idle" => Positions(submitted, Header) = {1}
    /\ \A k \in DOMAIN submitted : submitted[k].kind = "data" => k > 1

C5_Witness ==
    /\ Len(submitted) >= 3
    /\ submitted[1] = Header
    /\ submitted[2].kind = "data" /\ submitted[3].kind = "data"
    /\ submitted[2].pkg # submitted[3].pkg

\* The writes unit u has completed: all of its i distributions once it is
\* past writer.Write, one fewer while the i-th is still being handled.
Written(u) ==
    IF unit[u].pc \in {"found", "done", "finished"} THEN unit[u].i
    ELSE IF unit[u].i > 0 THEN unit[u].i - 1 ELSE 0

\* The data rows of s that belong to package u, in the order s holds them.
RowsOfPackage(s, u) == SelectSeq(s, LAMBDA r : r.kind = "data" /\ r.pkg = u)

\* C6: once the file is created, each successful probe whose Write has
\* returned left exactly one record in the sink, carrying the package, the
\* distribution and the probed size; the sink holds no other record, and the
\* rows of one package are in that package's discovery order.
C6_OneRecordPerProbe ==
    mainpc \in {"header", "launch", "wait", "close", "done"} =>
        /\ \A u \in Units :
              RowsOfPackage(Appended, u) =
                 SubSeq(RowsOfPackage(submitted, u), 1, Written(u))
        /\ \A k \in DOMAIN Appended : Appended[k].kind \in {"header", "data"}

\* C7: f.Close() runs only after every launched unit has executed
\* tasksGroup.Done(): from the state where Close is about to run onwards,
\* every discovered package has been launched, each unit is finished, and so
\* none is left to append a record.
C7_CloseAfterAllDone ==
    mainpc \in {"close", "done"} =>
        /\ Launched = 1..packages
        /\ \A u \in Launched : unit[u].pc = "finished"
        /\ tasksGroup = 0

C7_Witness ==
    /\ mainpc = "close"
    /\ packages = MaxPackages
    /\ \A u \in Launched : unit[u].nDists >= 1
    /\ closed = FALSE

\* C8 as stated: once a unit's request has failed, the run never reaches Done
\* and no unit writes a further row.
C8_NoRowAfterFailure ==
    /\ [](AnyFailed => mainpc # "done")
    /\ [][AnyFailed => UNCHANGED <<buf, file>>]_vars

\* A unit has panicked.
AnyPanicked == \E u \in Units : unit[u].pc = "panicked"

\* C8 amended: once a unit's request has failed, the run never reaches Done
\* (the file is never closed), and once that unit has panicked no row is
\* submitted or written any more.  Between the failed call and the panic the
\* other units may still write rows.
C8_NoRowAfterPanic ==
    /\ [](AnyFailed => mainpc # "done" /\ ~closed)
    /\ [][AnyPanicked => UNCHANGED <<buf, file, submitted>>]_vars

C8_Witness ==
    /\ AnyPanicked
    /\ \E u \in Units : unit[u].method = "HEAD" /\ unit[u].err
    /\ \E v \in Units : unit[v].pc \in {"write", "writing"}
    /\ Len(Appended) >= 2

\* The Get of package p's page failed and the run has ended.
DiscoveryFailed(p) ==
    /\ unit[p].method = "GET" /\ unit[p].err /\ unit[p].pc = "panicked"

\* C9 as stated: when the Get for package p fails, every other package's unit
\* still does its discovery and probes and gets its records appended: the run
\* does not end before the other units have finished.
C9_OthersUnaffected ==
    \A p \in Units :
        (DiscoveryFailed(p) /\ proc # "running") =>
            \A q \in (1..packages) \ {p} : unit[q].pc = "finished"

\* C9 amended: a discovery failure for package p is not isolated.  Once p's
\* unit has panicked on it, no other unit takes another step: whatever
\* discovery, probes and appends the others had not done yet are never done.
C9_FailureStopsOthers ==
    [][(\E p \in Units : DiscoveryFailed(p))
         => UNCHANGED <<unit, distributionsFound, totalRequests, submitted>>]_vars

C9_Witness ==
    \E p \in Units :
        /\ DiscoveryFailed(p)
        /\ proc = "panicked"
        /\ \E q \in Units \ {p} : unit[q].pc \in {"gate", "gate2", "issue", "do"}

\* C10: no step makes packagesScraped, distributionsFound or totalSizeBytes
\* smaller, also when a probe reports the unknown length -1.
C10_CountersMonotone ==
    [][/\ packagesScraped' >= packagesScraped
       /\ distributionsFound' >= distributionsFound
       /\ U64Leq(totalSizeBytes, totalSizeBytes')]_vars

\* C11: every data row the sink holds has a non-negative size field, for
\* every content length a successful HEAD response can report, -1 included.
C11_SizesNonNegative ==
    \A k \in DOMAIN Appended :
        Appended[k].kind = "data" => Appended[k].size >= 0

\* C12: in every reachable state requestsFinished does not exceed
\* totalRequests (0 <= issued - completed), whether calls succeed or fail.
C12_FinishedWithinIssued == 0 <= totalRequests - requestsFinished

C12_Witness ==
    /\ AnyFailed
    /\ requestsFinished >= 2
    /\ requestsFinished = totalRequests
    /\ \E u \in Units : unit[u].pc \in {"gate", "gate2", "issue"}

\* Unit u returns from Request in this step because its url did not parse.
ParseFails(u) ==
    /\ unit[u].pc = "gate2"
    /\ unit'[u].pc = "returned"

\* C13: a Request whose url fails to parse returns the error without making
\* a network call and leaves totalRequests and requestsFinished unchanged.
C13_ParseErrorTouchesNothing ==
    [][\A u \in Units :
          ParseFails(u) =>
              /\ unit'[u].err
              /\ UNCHANGED <<totalRequests, requestsFinished, netCalls>>]_vars

C13_Witness ==
    /\ packages = 1
    /\ unit[1].pc = "returned" /\ unit[1].err
    /\ unit[1].method = "HEAD" /\ unit[1].i = 1
    /\ totalRequests = 1 /\ requestsFinished = 1 /\ netCalls.governed = 1

\* C14: when Package Discovery fails the run aborts in Discovering with no
\* package list at all: no unit is launched, the output file is not created
\* and nothing is submitted to or held by the writer.
C14_DiscoveryFailureAborts ==
    (mainpc = "discover" /\ proc = "panicked") =>
        /\ packages = 0
        /\ next = 1 /\ tasksGroup = 0
        /\ \A u \in Units : unit[u] = IdleUnit
        /\ submitted = <<>> /\ buf = <<>>
        /\ totalRequests = 0 /\ netCalls.governed = 0

C14_Witness ==
    /\ mainpc = "discover" /\ proc = "panicked"
    /\ netCalls.direct = 1

\* C16: every Request that reaches the network call is counted once in
\* totalRequests before it and once in requestsFinished after it, whatever
\* the outcome: the two counters differ by exactly the requests between the
\* two increments, so they are equal when there is none, and a unit whose
\* call failed holds no slot.
C16_CountersBracketCalls ==
    /\ totalRequests - requestsFinished = Cardinality(InFlight)
    /\ InFlight = {} => totalRequests = requestsFinished
    /\ \A u \in Units :
          (unit[u].err /\ unit[u].pc \in {"returned", "panic", "panicked"})
              => u \notin InFlight

C16_Witness ==
    /\ InFlight = {}
    /\ totalRequests = requestsFinished
    /\ totalRequests = netCalls.governed
    /\ totalRequests >= 2
    /\ \E u \in Units : unit[u].err /\ unit[u].pc = "returned"
    /\ \E v \in Units : unit[v].pc = "gate"

\* C17: every value getRunningRequests returns is >= 0: for a unit that has
\* loaded totalRequests and is about to load requestsFinished, the difference
\* it will compute is not negative.
C17_RunningNeverNegative ==
    \A u \in Units :
        unit[u].pc = "gate2" => getRunningRequests(unit[u].loaded) >= 0

\* The launched units that have not executed tasksGroup.Done().
Unfinished == {u \in Launched : unit[u].pc # "finished"}

\* C19: a unit has at most one request in flight, so issued - completed never
\* exceeds the number of launched units that have not finished, and the
\* overshoot above the ceiling is at most (unfinished units - ceiling).
C19_InFlightWithinUnfinished ==
    /\ totalRequests - requestsFinished <= Cardinality(Unfinished)
    /\ (totalRequests - requestsFinished) - maxConcurrentRequests
          <= Cardinality(Unfinished) - maxConcurrentRequests
    /\ InFlight \subseteq Unfinished

C19_Witness ==
    /\ maxConcurrentRequests = 1
    /\ totalRequests - requestsFinished = 2
    /\ Cardinality(Unfinished) = 2

\* The data rows the sink holds.
DataRows == {k \in DOMAIN Appended : Appended[k].kind = "data"}

\* C20: when packagesScraped is k at least k units have finished their crawl;
\* the sink never holds more data rows than distributionsFound; and when a
\* fully successful run reaches Done the two are equal and packagesScraped is
\* the number of packages.
C20_CountersTrackCompletedWork ==
    /\ packagesScraped <= Cardinality({u \in Units : unit[u].pc = "finished"})
    /\ Cardinality(DataRows) <= distributionsFound
    /\ mainpc = "done" =>
          /\ Cardinality(DataRows) = distributionsFound
          /\ packagesScraped = packages

Next ==
    \/ Discover
    \/ CreateFile
    \/ WriteHeader
    \/ Launch
    \/ LaunchDone
    \/ Wait
    \/ Close
    \/ \E u \in Units : GateLoadTotal(u)
    \/ \E u \in Units : GateLoadFinished(u)
    \/ \E u \in Units : Issue(u)
    \/ \E u \in Units : Do(u)
    \/ \E u \in Units : Finish(u)
    \/ \E u \in Units : GetDistributions(u)
    \/ \E u \in Units : Found(u)
    \/ \E u \in Units : AddSize(u)
    \/ \E u \in Units : Panic(u)
    \/ \E u \in Units : WriteBegin(u)
    \/ \E u \in Units : WriteEnd(u)
    \/ \E u \in Units : Done(u)

Spec == Init /\ [][Next]_vars
\* ------------------------------------------------- runs without failures
\* No fetch, read, url parse or file creation has failed.
NoFailure == ~AnyFailed /\ proc # "panicked"

\* One step of main(), in a run where nothing fails.
MainLive ==
    \/ Discover /\ NoFailure'
    \/ CreateFile /\ NoFailure'
    \/ WriteHeader
    \/ Launch
    \/ LaunchDone
    \/ Wait
    \/ Close

\* The answer unit u has just received is the one of the failure-free runs:
\* a HEAD answer reports the length 1024 (termination does not depend on the
\* length, and one value keeps the fair specification small).
PlainAnswer(u) == unit[u].size \in {0, 1024}

\* One step of the goroutine of package u, in a run where nothing fails.
UnitLive(u) ==
    \/ GateLoadTotal(u)
    \/ GateLoadFinished(u) /\ NoFailure'
    \/ Issue(u)
    \/ Do(u) /\ NoFailure' /\ PlainAnswer(u)'
    \/ Finish(u)
    \/ GetDistributions(u) /\ NoFailure'
    \/ Found(u)
    \/ AddSize(u)
    \/ WriteBegin(u)
    \/ WriteEnd(u)
    \/ Done(u)

LiveNext == MainLive \/ \E u \in Units : UnitLive(u)

\* The Go scheduler runs every runnable goroutine again and again, and every
\* time.Sleep and every network call returns: weak fairness for main and for
\* each unit.
LiveSpec ==
    /\ Init
    /\ [][LiveNext]_vars
    /\ WF_vars(MainLive)
    /\ \A u \in Units : WF_vars(UnitLive(u))

\* C18: when nothing fails, under fair scheduling every unit waiting at the
\* gate gets past it, every launched unit reaches tasksGroup.Done(), and
\* main reaches Done with the file closed, for every ceiling and number of
\* packages of the model.
C18_RunTerminates ==
    /\ <>(mainpc = "done" /\ closed)
    /\ \A u \in Units : (unit[u].pc \in {"gate", "gate2"}) ~> (unit[u].pc = "issue")
    /\ \A u \in Units : (unit[u].pc # "idle") ~> (unit[u].pc = "finished")

C18_Witness ==
    \E u \in Units, v \in Units :
        /\ unit[u].pc = "gate2"
        /\ unit[v].pc = "do"
        /\ unit[u].loaded = totalRequests
        /\ GateClosed(getRunningRequests(unit[u].loaded))
\* ------------------------------------------------- exctractUrls on its own
crawlVars == <<proc, mainpc, packages, next, tasksGroup, packagesScraped,
               distributionsFound, totalSizeBytes, totalRequests,
               requestsFinished, maxConcurrentRequests, unit, buf, file,
               closed, submitted, netCalls>>

\* Any document may be handed to exctractUrls.
ExtractInit ==
    /\ proc = "running" /\ mainpc = "discover"
    /\ packages = 0 /\ next = 1 /\ tasksGroup = 0
    /\ packagesScraped = 0 /\ distributionsFound = 0
    /\ totalSizeBytes = U64Zero
    /\ totalRequests = 0 /\ requestsFinished = 0
    /\ maxConcurrentRequests = 1
    /\ unit = [u \in Units |-> IdleUnit]
    /\ buf = <<>> /\ file = <<>> /\ closed = FALSE
    /\ submitted = <<>>
    /\ netCalls = [direct |-> 0, governed |-> 0]
    /\ \E d \in Documents :
          extract = [pieces |-> d, body |-> Flatten(d), urls |-> <<>>,
                     done |-> FALSE]

\* main.go:137-145: the call of exctractUrls on the body.
ExtractUrls ==
    /\ ~extract.done
    /\ extract' = [extract EXCEPT !.urls = exctractUrls(extract.body),
                                  !.done = TRUE]
    /\ UNCHANGED crawlVars

ExtractSpec == ExtractInit /\ [][ExtractUrls]_vars

\* The pieces are well-formed anchors, line breaks and text only.
WellFormed(ps) == \A k \in DOMAIN ps : ps[k] # "bad"

\* The AnchorTags of the anchors among the pieces ps, in document order.
RECURSIVE AnchorsOf(_)
AnchorsOf(ps) ==
    IF ps = <<>> THEN <<>>
    ELSE (CASE Head(ps) = "a1" -> <<[href |-> <<"h1">>, text |-> <<"t1">>]>>
            [] Head(ps) = "a2" -> <<[href |-> <<"h2">>, text |-> <<"t2">>]>>
            [] OTHER -> <<>>) \o AnchorsOf(Tail(ps))

\* C15: for a document of well-formed anchors <a href="H">T</a>, line breaks
\* and text, exctractUrls returns {href: H, text: T} for each anchor, in
\* document order, also when several anchors share a line, and the empty
\* sequence when there is no anchor.
C15_AnchorsInOrder ==
    (extract.done /\ WellFormed(extract.pieces)) =>
        extract.urls = AnchorsOf(extract.pieces)
====
